---- MODULE Spec2Model ----
(***************************************************************************)
(* A model of the chat endpoint of pdf-ai (src/app/api/chat/route.ts):     *)
(* the POST handler as a state machine with one step per awaited call to   *)
(* the chunk store or the embedding service, the relevance gate and the    *)
(* retrieval cascade as operators over strings, and the chunk store as a   *)
(* sequence of chunks in natural order; and the upload endpoint            *)
(* (src/unnamed/part_001) with embedAndStoreDocs (src/lib/vectorStore.ts), *)
(* one step per awaited call to the store, for any number of upload        *)
(* requests running at once.                                               *)
(*                                                                         *)
(* Strings are TLA+ strings; a chunk's text is a record [s, pad] standing  *)
(* for the string s followed by pad filler characters that occur in no     *)
(* pattern of the code, so that texts of several hundred characters stay  *)
(* small.  Similarity scores are hundredths (0.6 is 60).                   *)
(***************************************************************************)
EXTENDS Integers, Sequences, FiniteSets, TLC

(***************************************************************************)
(* String primitives of JavaScript used by the handler.                    *)
(***************************************************************************)

\* String.prototype.includes
Includes(s, t) ==
    \E i \in 1..(Len(s) - Len(t) + 1) : SubSeq(s, i, i + Len(t) - 1) = t

CharAt(s, i) == SubSeq(s, i, i)

UpperChars == "ABCDEFGHIJKLMNOPQRSTUVWXYZ"
LowerChars == "abcdefghijklmnopqrstuvwxyz"

UpperSet == {CharAt(UpperChars, i) : i \in 1..Len(UpperChars)}
LowerOf ==
    [c \in UpperSet |->
        CharAt(LowerChars, CHOOSE i \in 1..Len(UpperChars) : CharAt(UpperChars, i) = c)]

LowerChar(c) == IF c \in UpperSet THEN LowerOf[c] ELSE c

\* String.prototype.toLowerCase
RECURSIVE toLowerCase(_)
toLowerCase(s) ==
    IF Len(s) = 0 THEN ""
    ELSE LowerChar(CharAt(s, 1)) \o toLowerCase(SubSeq(s, 2, Len(s)))

\* String.prototype.split(' '): the pieces between single spaces, empty
\* pieces included.
RECURSIVE SplitAcc(_, _, _)
SplitAcc(s, i, cur) ==
    IF i > Len(s) THEN <<cur>>
    ELSE IF CharAt(s, i) = " " THEN <<cur>> \o SplitAcc(s, i + 1, "")
    ELSE SplitAcc(s, i + 1, cur \o CharAt(s, i))

split(s) == SplitAcc(s, 1, "")

\* Array.prototype.slice(0, n) and cursor.limit(n)
Take(seq, n) == SubSeq(seq, 1, IF Len(seq) < n THEN Len(seq) ELSE n)

Range(seq) == {seq[i] : i \in 1..Len(seq)}

IsWs(c) == c \in {" ", "\n", "\t"}
IsDigit(c) == c \in {"0", "1", "2", "3", "4", "5", "6", "7", "8", "9"}

\* The regular expression  a\s*b  tested anywhere in s.
TestWs(s, a, b) ==
    \E i \in 1..Len(s) : \E k \in 0..Len(s) :
        /\ i + Len(a) + k + Len(b) - 1 <= Len(s)
        /\ SubSeq(s, i, i + Len(a) - 1) = a
        /\ \A j \in (i + Len(a))..(i + Len(a) + k - 1) : IsWs(CharAt(s, j))
        /\ SubSeq(s, i + Len(a) + k, i + Len(a) + k + Len(b) - 1) = b

\* The regular expression  ^\d+\.  with the m flag: a line of s that starts
\* with digits followed by a dot.
TestNumberedLine(s) ==
    \E i \in 1..Len(s) : \E k \in 1..Len(s) :
        /\ i = 1 \/ CharAt(s, i - 1) = "\n"
        /\ i + k <= Len(s)
        /\ \A j \in i..(i + k - 1) : IsDigit(CharAt(s, j))
        /\ CharAt(s, i + k) = "."

\* An alternation of literals  a|b|c  tested anywhere in s.
TestAny(s, lits) == \E l \in lits : Includes(s, l)

\* Array.prototype.sort with a comparator (a stable sort); cmp[<<a, b>>] is
\* the comparator's value on a and b.  The element at index i comes after
\* every j that compares before it, and after every earlier j that compares
\* equal.
StableSort(seq, cmp) ==
    LET n == Len(seq)
        rank(i) == Cardinality({j \in 1..n :
                       \/ cmp[<<seq[j], seq[i]>>] < 0
                       \/ cmp[<<seq[j], seq[i]>>] = 0 /\ j < i}) + 1
    IN  [r \in 1..n |-> seq[CHOOSE i \in 1..n : rank(i) = r]]

(***************************************************************************)
(* Chunk texts.  [s, pad] is s followed by pad filler characters; the      *)
(* filler is no letter, digit, space or line break, so it takes part in    *)
(* no pattern and only counts towards the length.                          *)
(***************************************************************************)
TextLen(t) == Len(t.s) + t.pad
TextLower(t) == toLowerCase(t.s)

Undefined == "undefined"

(***************************************************************************)
(* The relevance gate (the block run when the vector search gave nothing). *)
(***************************************************************************)
MetaMarkers ==
    {"pdf", "document", "file", "details about this", "summary", "overview",
     "tell me about", "what is this", "contents", "topics", "chapters", "sections"}

\* A variant that forgets the marker 'pdf'.
isGeneralPdfQuestionNoPdf(questionLower) == TestAny(questionLower, MetaMarkers \ {"pdf"})

isGeneralPdfQuestion(questionLower) == TestAny(questionLower, MetaMarkers)

commonTerms ==
    {"photon", "matter", "interaction", "physics", "energy", "quantum", "electron",
     "atom", "radiation", "medical", "helium", "approximation", "model"}

\* sampleDocs.map(doc => doc.text || '').join(' ').toLowerCase(); no term
\* holds a space or a filler character, so a term lies within one text.
documentTerms(sampleDocs) ==
    {term \in commonTerms :
        \E i \in 1..Len(sampleDocs) : Includes(TextLower(sampleDocs[i].text), term)}

questionTerms(questionLower) ==
    SelectSeq(split(questionLower), LAMBDA word : Len(word) > 3)

hasRelevantTerms(questionLower, sampleDocs) ==
    \E term \in Range(questionTerms(questionLower)) :
        \E docTerm \in documentTerms(sampleDocs) :
            Includes(term, docTerm) \/ Includes(docTerm, term)

isObviouslyUnrelated(questionLower) ==
    \/ TestWs(questionLower, "window", "11") \/ TestWs(questionLower, "windows", "11")
    \/ TestWs(questionLower, "microsoft", "office")
    \/ Includes(questionLower, "adobe") \/ TestWs(questionLower, "pdf", "reader")
    \/ TestAny(questionLower, {"computer", "software", "app"})
    \/ TestAny(questionLower, {"weather", "climate"})
    \/ TestAny(questionLower, {"food", "recipe", "cooking"})
    \/ TestAny(questionLower, {"sports", "football", "basketball"})
    \/ TestAny(questionLower, {"movie", "film", "entertainment"})
    \/ TestAny(questionLower, {"music", "song", "artist"})
    \/ TestAny(questionLower, {"travel", "vacation", "hotel"})
    \/ TestAny(questionLower, {"shopping", "purchase", "buy"})

GateSampleSize == 3

\* A variant that rejects on missing term overlap only.
GateRejectsTermsOnly(questionLower, sampleDocs) ==
    ~hasRelevantTerms(questionLower, sampleDocs) /\ Len(questionTerms(questionLower)) > 0

\* A variant that rejects a question without overlap even when it has no
\* word longer than 3 characters.
GateRejectsNoSignal(questionLower, sampleDocs) ==
    isObviouslyUnrelated(questionLower) \/ ~hasRelevantTerms(questionLower, sampleDocs)

\* The condition of the rejection at the end of the gate's else branch.
GateRejects(questionLower, sampleDocs) ==
    \/ isObviouslyUnrelated(questionLower)
    \/ ~hasRelevantTerms(questionLower, sampleDocs)
       /\ Len(questionTerms(questionLower)) > 0

\* The gate as a whole: whether the question is let through to the cascade.
GatePasses(question, sampleDocs) ==
    LET questionLower == toLowerCase(question)
    IN  isGeneralPdfQuestion(questionLower) \/ ~GateRejects(questionLower, sampleDocs)

(***************************************************************************)
(* Question shapes of the cascade.                                         *)
(***************************************************************************)
ListingMaxWords == 8

isListingRequest(questionLower) ==
    /\ Includes(questionLower, "list")
    /\ \/ Includes(questionLower, "topic")
       \/ Includes(questionLower, "chapter")
       \/ Includes(questionLower, "subject")
    /\ ~Includes(questionLower, "explain")
    /\ ~Includes(questionLower, "about")
    /\ Len(split(questionLower)) < ListingMaxWords

isOverviewRequest(questionLower) ==
    /\ Includes(questionLower, "detail")
    /\ \/ Includes(questionLower, "pdf")
       \/ Includes(questionLower, "document")
       \/ Includes(questionLower, "book")

stopWords ==
    {"can", "you", "tell", "me", "about", "what", "is", "the", "a", "an", "and", "or",
     "but", "for", "with", "this", "that", "explain", "topic"}

meaningfulKeywords(questionLower) ==
    SelectSeq(split(questionLower), LAMBDA word : Len(word) > 3 /\ word \notin stopWords)

(***************************************************************************)
(* The chunk store: a sequence of chunks [id, fileId, text] in natural     *)
(* order, and the queries the handler sends to it.  A document handed to   *)
(* the handler carries the fields the query projects.                      *)
(***************************************************************************)
Doc(c, score) == [id |-> c.id, fileId |-> c.fileId, text |-> c.text, score |-> score]

\* The alternative pipeline projects text and score only.
AltDoc(c, score) == [id |-> c.id, fileId |-> Undefined, text |-> c.text, score |-> score]

countDocuments(coll, fileId) == Len(SelectSeq(coll, LAMBDA c : c.fileId = fileId))

\* collection.find(filter).limit(n).toArray(); matching is the set of chunks
\* the filter selects
find(coll, matching, n) ==
    LET hit == Take(SelectSeq(coll, LAMBDA c : c \in matching), n)
    IN  [i \in 1..Len(hit) |-> Doc(hit[i], Undefined)]

\* The regular expression  chapter \d+  (flag i) on a lower-cased text.
TestChapterNumber(lower) ==
    \E i \in 1..Len(lower) :
        /\ i + 8 <= Len(lower)
        /\ SubSeq(lower, i, i + 7) = "chapter "
        /\ IsDigit(CharAt(lower, i + 8))

\* The regular expression  a.*b : a, then b later on the same line.
TestDotStar(s, a, b) ==
    \E i \in 1..Len(s) : \E j \in 1..Len(s) :
        /\ j >= i + Len(a)
        /\ j + Len(b) - 1 <= Len(s)
        /\ SubSeq(s, i, i + Len(a) - 1) = a
        /\ SubSeq(s, j, j + Len(b) - 1) = b
        /\ \A k \in (i + Len(a))..(j - 1) : CharAt(s, k) # "\n"

structureQuery(c, pdfId) ==
    /\ c.fileId = pdfId
    /\ \/ TestAny(TextLower(c.text),
                  {"contents", "index", "chapter", "section", "part", "unit"})
       \/ TestNumberedLine(c.text.s)
       \/ TestAny(TextLower(c.text), {"table of contents", "index"})
       \/ TestChapterNumber(TextLower(c.text))

HeadingMaxLen == 200
HeadingMinLen == 10

headingQuery(c, pdfId) ==
    /\ c.fileId = pdfId
    /\ TextLen(c.text) < HeadingMaxLen /\ TextLen(c.text) > HeadingMinLen

overviewQuery(c, pdfId) ==
    /\ c.fileId = pdfId
    /\ \/ TestAny(TextLower(c.text), {"introduction", "abstract", "overview", "preface",
                                      "summary", "purpose", "scope"})
       \/ TestAny(TextLower(c.text), {"this book", "this text", "this work", "covers",
                                      "discusses"})
       \/ TestDotStar(TextLower(c.text), "chapter", "cover")
       \/ TestDotStar(TextLower(c.text), "section", "discuss")
       \/ TestDotStar(TextLower(c.text), "topics", "include")

introScore(d) ==
    LET t == TextLower(d.text)
    IN  (IF Includes(t, "introduction") THEN 3 ELSE 0)
        + (IF Includes(t, "overview") THEN 2 ELSE 0)
        + (IF Includes(t, "this book") THEN 2 ELSE 0)
        + (IF Includes(t, "covers") THEN 1 ELSE 0)

OverviewKeep == 8

rankOverview(found) ==
    IF Len(found) > 0
    THEN Take(StableSort(found, [p \in Range(found) \X Range(found) |->
                                        introScore(p[2]) - introScore(p[1])]),
              OverviewKeep)
    ELSE found

\* { text: { $regex: keyword, $options: 'i' } } for a keyword without
\* regular-expression metacharacters.
keywordQuery(c, pdfId, keywords) ==
    /\ c.fileId = pdfId
    /\ \E k \in Range(keywords) : Includes(TextLower(c.text), k)

BoilerplateMarkers == {"Oxford Master Series", "course books", "tutorial material"}
OverviewPageMaxLen == 300

\* A variant of the filter without the length test.
isOverviewPageMarkersOnly(d) == TestAny(d.text.s, BoilerplateMarkers)

\* lines 378-384
isOverviewPage(d) ==
    \/ TestAny(d.text.s, BoilerplateMarkers)
    \/ TextLen(d.text) < OverviewPageMaxLen

GoodLenMin == 500
GoodLenMax == 2000
KeywordKeep == 8

keywordMatches(d, keywords) ==
    Len(SelectSeq(keywords, LAMBDA k : Includes(TextLower(d.text), k)))

lengthScore(d) ==
    IF TextLen(d.text) >= GoodLenMin /\ TextLen(d.text) <= GoodLenMax THEN 1 ELSE 0

\* A variant of the comparator that leaves out the length band.
keywordCompareCountOnly(a, b, keywords) ==
    keywordMatches(b, keywords) - keywordMatches(a, keywords)

keywordCompare(a, b, keywords) ==
    IF keywordMatches(b, keywords) # keywordMatches(a, keywords)
    THEN keywordMatches(b, keywords) - keywordMatches(a, keywords)
    ELSE lengthScore(b) - lengthScore(a)

\* The ranking of Stage 3: allDocs -> docs.
rankKeyword(allDocs, keywords) ==
    LET contentDocs == SelectSeq(allDocs, LAMBDA d : ~isOverviewPage(d))
        docsToSort == IF Len(contentDocs) > 0 THEN contentDocs ELSE allDocs
    IN  Take(StableSort(docsToSort, [p \in Range(docsToSort) \X Range(docsToSort) |->
                                        keywordCompare(p[1], p[2], keywords)]),
             KeywordKeep)

\* The condition that sends Stage 3 to its more specific search.
stillOverview(ranked) ==
    Len(ranked) > 0 /\ Includes(ranked[1].text.s, "Oxford Master Series")

SpecificMinLen == 500

specificQuery(c, pdfId, keywords) ==
    /\ c.fileId = pdfId
    /\ \E k \in Range(keywords) : Includes(TextLower(c.text), k)
    /\ \/ TestAny(TextLower(c.text), {"chapter", "section", "equation", "formula",
                                      "energy", "electron", "quantum"})
       \/ TextLen(c.text) > SpecificMinLen
    /\ ~TestAny(TextLower(c.text),
                {"oxford master series", "course books", "tutorial material"})

(***************************************************************************)
(* The vector index is outside the program: a search may return any        *)
(* ranking of the candidate chunks, best score first.                      *)
(***************************************************************************)
Scores == {20, 30, 60}
MaxRows == 2
Files == {"f1", "f2"}

Min(a, b) == IF a < b THEN a ELSE b

Rankings(cands, limit) ==
    UNION {{r \in [1..n -> cands \X Scores] :
               /\ \A i \in 1..n : \A j \in 1..n : i # j => r[i][1] # r[j][1]
               /\ \A i \in 1..(n - 1) : r[i][2] >= r[i + 1][2]}
           : n \in 0..Min(Min(limit, MaxRows), Cardinality(cands))}

VectorLimit == 5
AltLimit == 3
scoreThreshold == 60
alternativeIndexes == <<"default", "vector_search_index", "embeddings_index">>

\* $vectorSearch on "vector_index" with filter { fileId: { $eq: pdfId } }
vectorSearchPipeline(coll, pdfId) ==
    {[i \in 1..Len(r) |-> Doc(r[i][1], r[i][2])] :
        r \in Rankings({c \in Range(coll) : c.fileId = pdfId}, VectorLimit)}

\* $vectorSearch on an alternative index: no filter
altPipeline(coll) ==
    {[i \in 1..Len(r) |-> AltDoc(r[i][1], r[i][2])] : r \in Rankings(Range(coll), AltLimit)}

\* Lines 115-128: the similarity floor on a non-empty result.
applyThreshold(found) ==
    LET relevantDocs == SelectSeq(found, LAMBDA d : d.score >= scoreThreshold)
    IN  IF Len(relevantDocs) = 0 /\ Len(found) > 0 /\ found[1].score < scoreThreshold
        THEN <<>>
        ELSE relevantDocs

SampleSize == 8

\* { $match: { fileId } }, { $sample: { size: 8 } }: distinct chunks of the
\* file in any order.
diverseSample(coll, pdfId) ==
    LET own == {c \in Range(coll) : c.fileId = pdfId}
        k == Min(SampleSize, Cardinality(own))
    IN  {[i \in 1..k |-> Doc(r[i], Undefined)] :
            r \in {f \in [1..k -> own] : \A i \in 1..k : \A j \in 1..k : i # j => f[i] # f[j]}}

(***************************************************************************)
(* The response composer (lines 479-604), as far as the template it picks. *)
(***************************************************************************)
RECURSIVE SumLen(_)
SumLen(ds) == IF ds = <<>> THEN 0 ELSE TextLen(Head(ds).text) + SumLen(Tail(ds))

\* context = docs.map(text).join('\n\n'); its length
contextLength(ds) == IF ds = <<>> THEN 0 ELSE SumLen(ds) + 2 * (Len(ds) - 1)

LittleContent == 50

composerListing(lowerQuestion) ==
    /\ Includes(lowerQuestion, "list")
    /\ \/ Includes(lowerQuestion, "topic")
       \/ Includes(lowerQuestion, "subject")
       \/ Includes(lowerQuestion, "chapter")

template(question, ds) ==
    LET lowerQuestion == toLowerCase(question)
    IN  IF contextLength(ds) = 0 THEN "unreadable"
        ELSE IF contextLength(ds) < LittleContent THEN "little"
        ELSE IF composerListing(lowerQuestion) THEN "listing"
        ELSE IF TestAny(lowerQuestion, {"explain", "what is", "describe", "tell me about"})
             THEN "explain"
        ELSE IF TestAny(lowerQuestion, {"detail", "about", "summary"}) THEN "overview"
        ELSE "generic"

\* A variant that reports the first chunk only.
sourcesOfFirst(ds) == [i \in 1..Min(1, Len(ds)) |-> [pageContent |-> ds[i].text]]

sourcesOf(ds) == [i \in 1..Len(ds) |-> [pageContent |-> ds[i].text]]

compose(question, ds) ==
    [status |-> 200, kind |-> template(question, ds),
     sources |-> IF contextLength(ds) = 0 THEN <<>> ELSE sourcesOf(ds)]

\* The body of an error response has the field error only: the record has
\* no field sources.
NoResponse == [status |-> 0, kind |-> "none"]
BadRequest(why) == [status |-> 400, kind |-> why]
InternalError == [status |-> 500, kind |-> "error"]
NoDocuments == [status |-> 200, kind |-> "nodocs", sources |-> <<>>]
Irrelevant == [status |-> 200, kind |-> "irrelevant", sources |-> <<>>]

(***************************************************************************)
(* The POST handler of the chat endpoint.                                  *)
(***************************************************************************)
VARIABLES
    collection,  \* the chunk store, in natural order
    body,        \* the request body: [messages, pdfId]
    pc,          \* the awaited call the handler is at
    docs,        \* the handler's docs
    altPos,      \* position of the loop over alternativeIndexes
    client,      \* the MongoClient: "none", "open" or "closed"
    response,    \* the response returned, NoResponse before
    calls,       \* every call sent to the store or the embedding service
    strategy,    \* the cascade stage that filled docs, {} while docs is empty
    uploads,     \* the upload requests: where each one is in its handler
    pdfs,        \* PDFChatApp: the ids of the PDFs reported ready
    selectedPDF, \* PDFChatApp: the selected PDF, Null before the first one
    showUpload,  \* PDFChatApp: whether the upload widget is rendered
    files,       \* PDFUpload: the files of the mounted widget, [id, status]
    pending,     \* PDFUpload: the uploads awaiting their response
    fileCount,   \* the number of PDF files selected so far
    messages,    \* Chat: the message list
    input,       \* Chat: the text of the input field
    isLoading,   \* Chat: the loading flag
    data,        \* Chat: the sources kept for getSources
    requests,    \* Chat: the chat requests awaiting their response
    submitted,   \* the number of submits accepted so far
    view         \* the state as of the last render: what the handlers' closures hold

uiVars == <<pdfs, selectedPDF, showUpload, files, pending, fileCount,
            messages, input, isLoading, data, requests, submitted, view>>

vars == <<collection, body, pc, docs, altPos, client, response, calls, strategy, uploads,
          uiVars>>

\* A stored chunk: _id, the text, and the metadata the upload handler adds.
\* The stores below were ingested before the first upload request of the
\* model arrives (uploadedAt 0).
Chunk(id, fileId, chunkIndex, s, pad) ==
    [id |-> id, fileId |-> fileId, text |-> [s |-> s, pad |-> pad],
     chunkIndex |-> chunkIndex, uploadedAt |-> 0]

PhysicsStore ==
    <<Chunk(1, "f1", 0, "Oxford Master Series in Physics course books", 0),
      Chunk(2, "f1", 1, "Chapter 2 covers the photon energy of the helium atom", 600),
      Chunk(3, "f1", 2, "The physics of electron energy levels", 0)>>

OutlineStore ==
    <<Chunk(1, "f1", 0, "1. Introduction", 0),
      Chunk(2, "f1", 1, "2. Methods", 0),
      Chunk(3, "f2", 0, "A recipe for cooking pasta at home", 0)>>

\* Three keyword candidates with 3, 1 and 2 matches and lengths 600, 1800
\* and 100 for the keywords photon, electron, energy.
RankingStore ==
    <<Chunk(1, "f1", 0, "photon electron energy", 578),
      Chunk(2, "f1", 1, "photon", 1794),
      Chunk(3, "f1", 2, "electron energy", 85)>>

\* Two candidates with one match each, of lengths 400 and 1800.
TieStore ==
    <<Chunk(1, "f1", 0, "photon flux", 389),
      Chunk(2, "f1", 1, "photon beam", 1789)>>

\* Two short candidates for the keywords photon and energy; the first holds
\* the marker 'course books' and not 'Oxford Master Series'.
SeriesStore ==
    <<Chunk(1, "f1", 0, "These course books cover photon energy", 0),
      Chunk(2, "f1", 1, "photon energy", 0)>>

Stores == {PhysicsStore, OutlineStore, RankingStore, TieStore, SeriesStore}

Questions ==
    {"", "list the chapters", "details about this document", "explain the photon energy",
     "what's your favorite recipe", "pdf reader", "Tell me about Windows 11", "why so",
     "physics series", "buy app", "helium approximation", "photon electron energy",
     "explain the chapter list"}

Bodies ==
    {[messages |-> m, pdfId |-> f] :
        m \in {<<>>} \cup {<<[role |-> "user", content |-> q]>> : q \in Questions},
        f \in Files}

\* lines 38-44
questionOf(b) == b.messages[Len(b.messages)].content

question == questionOf(body)
questionLower == toLowerCase(question)
pdfId == body.pdfId

\* The upload requests of the model, and what they may carry: the file of
\* the form, its fileId, and the chunks the loader and the splitter make of
\* the file.
MaxUploads == 2
Uploaders == 1..MaxUploads

UploadFiles == {"pdf", "none", "text", "large"}

UploadDocs ==
    {<<>>,
     <<[s |-> "Helium ground state energy", pad |-> 0]>>,
     <<[s |-> "Helium ground state energy", pad |-> 0],
       [s |-> "Variational approximation", pad |-> 0]>>}

\* An upload request that has not arrived.
IdleUpload ==
    [pc |-> "idle", fileId |-> Undefined, docs |-> <<>>, attempt |-> 1, uploadedAt |-> 0,
     status |-> 0]

\* pdf-chat-app.tsx line 20: no PDF selected.  The ids of the PDFs are the
\* positive numbers.
Null == 0

\* The initial messages of the chat panel (imported on line 8 of the Chat
\* component): one greeting of the assistant.  The field about of a message
\* is not in the program: it records the PDF the request of the message
\* was sent for.
initialMessages ==
    <<[id |-> 0, role |-> "assistant", content |-> "initial", about |-> Null]>>

\* What a render hands to the handlers it creates: the state they close
\* over.
Snapshot(s) ==
    [pdfs |-> s.pdfs, selectedPDF |-> s.selectedPDF, showUpload |-> s.showUpload,
     messages |-> s.messages, input |-> s.input, isLoading |-> s.isLoading]

\* The state of the three components after their first render.
InitialUI ==
    [pdfs |-> <<>>, selectedPDF |-> Null, showUpload |-> TRUE, files |-> <<>>,
     pending |-> {}, fileCount |-> 0, messages |-> initialMessages, input |-> "",
     isLoading |-> FALSE, data |-> <<>>, requests |-> {}, submitted |-> 0]

\* Nothing has happened in the browser.
InitUI ==
    /\ pdfs = InitialUI.pdfs
    /\ selectedPDF = InitialUI.selectedPDF
    /\ showUpload = InitialUI.showUpload
    /\ files = InitialUI.files
    /\ pending = InitialUI.pending
    /\ fileCount = InitialUI.fileCount
    /\ messages = InitialUI.messages
    /\ input = InitialUI.input
    /\ isLoading = InitialUI.isLoading
    /\ data = InitialUI.data
    /\ requests = InitialUI.requests
    /\ submitted = InitialUI.submitted
    /\ view = Snapshot(InitialUI)

Init ==
    /\ InitUI
    /\ uploads = [u \in Uploaders |-> IdleUpload]
    /\ collection \in Stores
    /\ body = [messages |-> <<>>, pdfId |-> Undefined]
    /\ pc = "idle"
    /\ docs = <<>>
    /\ altPos = 1
    /\ client = "none"
    /\ response = NoResponse
    /\ calls = <<>>
    /\ strategy = {}

StoreErrors == {"StoreUnavailable"}
VectorErrors == {"IndexNotFound", "StoreUnavailable"}
EmbedErrors == {"EmbeddingServiceError"}

\* One call to the store or the embedding service: the operation, the index
\* it names, the number of chunks the handler holds when it sends it and the
\* stage they came from, how the call ended, and the number of chunks (or
\* the count) it returned.
Call(op, index, result, n) ==
    [op |-> op, index |-> index, held |-> Len(docs), from |-> strategy,
     result |-> result, n |-> n]

Log(op, index, result, n) == calls' = Append(calls, Call(op, index, result, n))

(***************************************************************************)
(* The synchronous code between two awaited calls: where the handler goes  *)
(* next.                                                                   *)
(***************************************************************************)
\* lines 264-453 up to the first query: the stage the question's shape picks
FallbackPc(q) ==
    IF isListingRequest(toLowerCase(q)) THEN "structure"
    ELSE IF isOverviewRequest(toLowerCase(q)) THEN "overview"
    ELSE IF Len(meaningfulKeywords(toLowerCase(q))) > 0 THEN "keyword"
    ELSE "sample"

\* lines 182-209: the gate is entered with no docs; a general question
\* skips the sample query
GatePc(q) ==
    IF isGeneralPdfQuestion(toLowerCase(q)) THEN FallbackPc(q) ELSE "gateSample"

\* A variant that enters the gate whatever Stage 0 found.
AfterVectorAlwaysGate(ds, q) == GatePc(q)

\* lines 182, 264, 456: the three tests of docs.length === 0 after Stage 0
AfterVector(ds, q) == IF Len(ds) = 0 THEN GatePc(q) ELSE "close"

\* A variant that draws the sample whatever the fallback stage found.
AfterFallbackAlwaysSample(ds) == "sample"

\* A variant that never draws the sample after a fallback stage.
AfterFallbackNeverSample(ds) == "close"

\* A variant in which a stage that found nothing falls through to the
\* keyword stage.
AfterFallbackFallsThrough(ds) == IF Len(ds) = 0 THEN "keyword" ELSE "close"

\* line 456 after a fallback stage
AfterFallback(ds) == IF Len(ds) = 0 THEN "sample" ELSE "close"

\* A variant without the try block around the primary vector search.
CatchOfNoVectorTry(op) ==
    CASE op = "alt" -> "alt"
      [] OTHER -> "outer"

\* The try blocks: which catch takes an exception thrown by a call.
\* "vector": line 178, "alt": line 173, "outer": line 605.
CatchOf(op) ==
    CASE op = "vector" -> "vector"
      [] op = "findOne" -> "vector"
      [] op = "alt" -> "alt"
      [] OTHER -> "outer"

\* A variant whose zero test never holds.
noDocumentsNever(docCount) == docCount < 0

\* line 63
noDocuments(docCount) == docCount = 0

\* The end of one iteration of the loop over alternativeIndexes that did
\* not break.
NextAlternative ==
    IF altPos < Len(alternativeIndexes)
    THEN altPos' = altPos + 1 /\ pc' = "alt"
    ELSE altPos' = altPos /\ pc' = GatePc(question)

\* An exception thrown by call op.
Raise(op) ==
    CASE CatchOf(op) = "vector" ->
            /\ pc' = GatePc(question)
            /\ UNCHANGED <<docs, altPos, client, response, strategy>>
      [] CatchOf(op) = "alt" ->
            /\ NextAlternative
            /\ UNCHANGED <<docs, client, response, strategy>>
      [] OTHER ->
            /\ pc' = "done"
            /\ response' = InternalError
            /\ UNCHANGED <<docs, altPos, client, strategy>>

\* lines 35-48: the request arrives and is validated
Receive ==
    /\ pc = "idle"
    /\ \E b \in Bodies :
        /\ body' = b
        /\ IF b.messages = <<>>
           THEN pc' = "done" /\ response' = BadRequest("No messages provided")
           ELSE IF questionOf(b) = ""
           THEN pc' = "done" /\ response' = BadRequest("Question is required")
           ELSE pc' = "connect" /\ response' = response
    /\ UNCHANGED <<collection, docs, altPos, client, calls, strategy, uploads, uiVars>>

\* line 55
Connect ==
    /\ pc = "connect"
    /\ \/ /\ Log("connect", Undefined, "ok", 0)
          /\ client' = "open"
          /\ pc' = "count"
          /\ UNCHANGED <<docs, altPos, response, strategy>>
       \/ \E e \in StoreErrors :
          /\ Log("connect", Undefined, e, 0)
          /\ Raise("connect")
    /\ UNCHANGED <<collection, body, uploads, uiVars>>

\* lines 62-69
CountDocuments ==
    /\ pc = "count"
    /\ \/ LET docCount == countDocuments(collection, pdfId)
          IN  /\ Log("count", Undefined, "ok", docCount)
              /\ IF noDocuments(docCount)
                 THEN client' = "closed" /\ response' = NoDocuments /\ pc' = "done"
                 ELSE client' = client /\ response' = response /\ pc' = "embed"
              /\ UNCHANGED <<docs, altPos, strategy>>
       \/ \E e \in StoreErrors :
          /\ Log("count", Undefined, e, 0)
          /\ Raise("count")
    /\ UNCHANGED <<collection, body, uploads, uiVars>>

\* lines 76-83
EmbedQuery ==
    /\ pc = "embed"
    /\ \/ /\ Log("embed", Undefined, "ok", 0)
          /\ pc' = "vector"
          /\ UNCHANGED <<docs, altPos, client, response, strategy>>
       \/ \E e \in EmbedErrors :
          /\ Log("embed", Undefined, e, 0)
          /\ Raise("embed")
    /\ UNCHANGED <<collection, body, uploads, uiVars>>

\* lines 87-129, 178-181: the primary vector search
VectorSearch ==
    /\ pc = "vector"
    /\ \/ \E found \in vectorSearchPipeline(collection, pdfId) :
          /\ Log("vector", "vector_index", "ok", Len(found))
          /\ IF Len(found) > 0
             THEN /\ docs' = applyThreshold(found)
                  /\ strategy' = IF Len(docs') > 0 THEN {0} ELSE {}
                  /\ pc' = AfterVector(docs', question)
             ELSE /\ pc' = "findOne"
                  /\ UNCHANGED <<docs, strategy>>
          /\ UNCHANGED <<altPos, client, response>>
       \/ \E e \in VectorErrors :
          /\ Log("vector", "vector_index", e, 0)
          /\ Raise("vector")
    /\ UNCHANGED <<collection, body, uploads, uiVars>>

\* lines 134-142: the debugging read before the alternative indexes
DebugFindOne ==
    /\ pc = "findOne"
    /\ \/ /\ Log("findOne", Undefined, "ok", Min(1, Len(collection)))
          /\ pc' = "alt"
          /\ altPos' = 1
          /\ UNCHANGED <<docs, client, response, strategy>>
       \/ \E e \in StoreErrors :
          /\ Log("findOne", Undefined, e, 0)
          /\ Raise("findOne")
    /\ UNCHANGED <<collection, body, uploads, uiVars>>

\* lines 144-176: one iteration of the loop over alternativeIndexes
AlternativeIndex ==
    /\ pc = "alt"
    /\ \/ \E altDocs \in altPipeline(collection) :
          /\ Log("alt", alternativeIndexes[altPos], "ok", Len(altDocs))
          /\ IF Len(altDocs) > 0
             THEN /\ docs' = altDocs
                  /\ strategy' = {0}
                  /\ pc' = AfterVector(docs', question)
                  /\ altPos' = altPos
             ELSE /\ NextAlternative
                  /\ UNCHANGED <<docs, strategy>>
          /\ UNCHANGED <<client, response>>
       \/ \E e \in VectorErrors :
          /\ Log("alt", alternativeIndexes[altPos], e, 0)
          /\ Raise("alt")
    /\ UNCHANGED <<collection, body, uploads, uiVars>>

\* lines 209-257: the gate's sample query and its decision
RelevanceGate ==
    /\ pc = "gateSample"
    /\ \/ LET sample == find(collection, {c \in Range(collection) : c.fileId = pdfId}, GateSampleSize)
          IN  /\ Log("gateSample", Undefined, "ok", Len(sample))
              /\ IF GateRejects(questionLower, sample)
                 THEN client' = "closed" /\ response' = Irrelevant /\ pc' = "done"
                 ELSE client' = client /\ response' = response /\ pc' = FallbackPc(question)
              /\ UNCHANGED <<docs, altPos, strategy>>
       \/ \E e \in StoreErrors :
          /\ Log("gateSample", Undefined, e, 0)
          /\ Raise("gateSample")
    /\ UNCHANGED <<collection, body, uploads, uiVars>>

StructureLimit == 10
HeadingLimit == 10
OverviewLimit == 10
KeywordLimit == 20
SpecificLimit == 8

\* lines 278-298: Strategy 1, the structure query
StructureSearch ==
    /\ pc = "structure"
    /\ \/ LET found == find(collection, {c \in Range(collection) : structureQuery(c, pdfId)},
                            StructureLimit)
          IN  /\ Log("structure", Undefined, "ok", Len(found))
              /\ docs' = found
              /\ strategy' = IF Len(found) > 0 THEN {1} ELSE {}
              /\ pc' = IF Len(found) = 0 THEN "heading" ELSE AfterFallback(found)
              /\ UNCHANGED <<altPos, client, response>>
       \/ \E e \in StoreErrors :
          /\ Log("structure", Undefined, e, 0)
          /\ Raise("structure")
    /\ UNCHANGED <<collection, body, uploads, uiVars>>

\* lines 298-308: Strategy 1, the heading query
HeadingSearch ==
    /\ pc = "heading"
    /\ \/ LET found == find(collection, {c \in Range(collection) : headingQuery(c, pdfId)},
                            HeadingLimit)
          IN  /\ Log("heading", Undefined, "ok", Len(found))
              /\ docs' = found
              /\ strategy' = IF Len(found) > 0 THEN {1} ELSE {}
              /\ pc' = AfterFallback(found)
              /\ UNCHANGED <<altPos, client, response>>
       \/ \E e \in StoreErrors :
          /\ Log("heading", Undefined, e, 0)
          /\ Raise("heading")
    /\ UNCHANGED <<collection, body, uploads, uiVars>>

\* lines 311-349: Strategy 2
OverviewSearch ==
    /\ pc = "overview"
    /\ \/ LET found == find(collection, {c \in Range(collection) : overviewQuery(c, pdfId)},
                            OverviewLimit)
          IN  /\ Log("overview", Undefined, "ok", Len(found))
              /\ docs' = rankOverview(found)
              /\ strategy' = IF Len(found) > 0 THEN {2} ELSE {}
              /\ pc' = AfterFallback(docs')
              /\ UNCHANGED <<altPos, client, response>>
       \/ \E e \in StoreErrors :
          /\ Log("overview", Undefined, e, 0)
          /\ Raise("overview")
    /\ UNCHANGED <<collection, body, uploads, uiVars>>

\* lines 352-418: Strategy 3, the keyword query and its ranking
KeywordSearch ==
    /\ pc = "keyword"
    /\ \/ LET keywords == meaningfulKeywords(questionLower)
              allDocs == find(collection,
                              {c \in Range(collection) : keywordQuery(c, pdfId, keywords)},
                              KeywordLimit)
          IN  /\ Log("keyword", Undefined, "ok", Len(allDocs))
              /\ docs' = IF Len(allDocs) > 0 THEN rankKeyword(allDocs, keywords) ELSE docs
              /\ strategy' = IF Len(allDocs) > 0 THEN {3} ELSE {}
              /\ pc' = IF stillOverview(docs') THEN "specific" ELSE AfterFallback(docs')
              /\ UNCHANGED <<altPos, client, response>>
       \/ \E e \in StoreErrors :
          /\ Log("keyword", Undefined, e, 0)
          /\ Raise("keyword")
    /\ UNCHANGED <<collection, body, uploads, uiVars>>

\* lines 418-448: Strategy 3, the more specific query
SpecificSearch ==
    /\ pc = "specific"
    /\ \/ LET keywords == meaningfulKeywords(questionLower)
              specificDocs == find(collection,
                                   {c \in Range(collection) :
                                       specificQuery(c, pdfId, keywords)},
                                   SpecificLimit)
          IN  /\ Log("specific", Undefined, "ok", Len(specificDocs))
              /\ docs' = IF Len(specificDocs) > 0 THEN specificDocs ELSE docs
              /\ pc' = AfterFallback(docs')
              /\ UNCHANGED <<altPos, client, response, strategy>>
       \/ \E e \in StoreErrors :
          /\ Log("specific", Undefined, e, 0)
          /\ Raise("specific")
    /\ UNCHANGED <<collection, body, uploads, uiVars>>

\* lines 456-466: the diverse sample
DiverseSample ==
    /\ pc = "sample"
    /\ \/ \E drawn \in diverseSample(collection, pdfId) :
          /\ Log("sample", Undefined, "ok", Len(drawn))
          /\ docs' = drawn
          /\ strategy' = IF Len(drawn) > 0 THEN {4} ELSE {}
          /\ pc' = "close"
          /\ UNCHANGED <<altPos, client, response>>
       \/ \E e \in StoreErrors :
          /\ Log("sample", Undefined, e, 0)
          /\ Raise("sample")
    /\ UNCHANGED <<collection, body, uploads, uiVars>>

\* A variant of the handler that deletes the document's chunks once it has
\* answered.
RespondPurging ==
    /\ pc = "close"
    /\ client' = "closed"
    /\ response' = compose(question, docs)
    /\ pc' = "done"
    /\ collection' = SelectSeq(collection, LAMBDA c : c.fileId # pdfId)
    /\ UNCHANGED <<body, docs, altPos, calls, strategy, uploads, uiVars>>

\* lines 479-604: the connection is closed and the answer composed
Respond ==
    /\ pc = "close"
    /\ client' = "closed"
    /\ response' = compose(question, docs)
    /\ pc' = "done"
    /\ UNCHANGED <<collection, body, docs, altPos, calls, strategy, uploads, uiVars>>

Next ==
    \/ Receive
    \/ Connect
    \/ CountDocuments
    \/ EmbedQuery
    \/ VectorSearch
    \/ DebugFindOne
    \/ AlternativeIndex
    \/ RelevanceGate
    \/ StructureSearch
    \/ HeadingSearch
    \/ OverviewSearch
    \/ KeywordSearch
    \/ SpecificSearch
    \/ DiverseSample
    \/ Respond

Spec == Init /\ [][Next]_vars

(***************************************************************************)
(* The upload endpoint (src/unnamed/part_001) and embedAndStoreDocs        *)
(* (src/lib/vectorStore.ts).                                               *)
(***************************************************************************)
chatVars == <<body, pc, docs, altPos, client, response, calls, strategy>>

\* new Date().toISOString() on line 77: the requests are numbered in the
\* order in which they reach that line.
Now == Cardinality({u \in Uploaders : uploads[u].uploadedAt > 0}) + 1

\* lines 71-81 of the upload handler
docsWithMetadata(splitDocs, fileId, at) ==
    [i \in 1..Len(splitDocs) |->
        [pageContent |-> splitDocs[i], fileId |-> fileId, chunkIndex |-> i - 1,
         uploadedAt |-> at]]

\* The _id the driver gives an inserted document: unique per insert.
ObjectId(u, attempt, i) == 100 * u + 10 * attempt + i

\* What fromDocuments inserts for the documents ds: text and the metadata,
\* flattened.
Stored(u, attempt, ds) ==
    [i \in 1..Len(ds) |->
        [id |-> ObjectId(u, attempt, i), fileId |-> ds[i].fileId, text |-> ds[i].pageContent,
         chunkIndex |-> ds[i].chunkIndex, uploadedAt |-> ds[i].uploadedAt]]

deleteMany(coll, fileId) == SelectSeq(coll, LAMBDA c : c.fileId # fileId)

\* A variant that never finds existing documents.
hasExistingNever(existingCount) == existingCount < 0

\* vectorStore.ts line 33
hasExisting(existingCount) == existingCount > 0

\* vectorStore.ts lines 28-31: firstDoc?.metadata?.fileId
firstFileId(ds) == IF Len(ds) > 0 THEN ds[1].fileId ELSE Undefined

Set(u, rec) == uploads' = [uploads EXCEPT ![u] = rec]

\* embedAndStoreDocs throws (lines 53-55); the handler calls it once more
\* (lines 99-105) and gives up after the second failure (lines 107-131).
IngestRaise(u) ==
    IF uploads[u].attempt = 1
    THEN Set(u, [uploads[u] EXCEPT !.attempt = 2, !.pc = "connect"])
    ELSE Set(u, [uploads[u] EXCEPT !.pc = "done", !.status = 500])

\* part_001 lines 9-97: the request arrives, is validated, the file is
\* loaded and split, and the chunks get their metadata
UploadReceive(u) ==
    /\ uploads[u].pc = "idle"
    /\ \E file \in UploadFiles : \E fileId \in Files \cup {""} : \E splitDocs \in UploadDocs :
          IF file = "none" \/ fileId = "" \/ file # "pdf"
          THEN Set(u, [IdleUpload EXCEPT !.pc = "done", !.status = 400])
          ELSE \/ Set(u, [IdleUpload EXCEPT
                              !.pc = "connect", !.fileId = fileId, !.uploadedAt = Now,
                              !.docs = docsWithMetadata(splitDocs, fileId, Now)])
               \/ Set(u, [IdleUpload EXCEPT !.pc = "done", !.status = 500])
    /\ UNCHANGED <<collection, chatVars, uiVars>>

\* vectorStore.ts lines 14-31
IngestConnect(u) ==
    /\ uploads[u].pc = "connect"
    /\ \/ Set(u, [uploads[u] EXCEPT
                     !.pc = IF firstFileId(uploads[u].docs) # Undefined THEN "count"
                            ELSE "store"])
       \/ IngestRaise(u)
    /\ UNCHANGED <<collection, chatVars, uiVars>>

\* vectorStore.ts lines 32-33
IngestCount(u) ==
    /\ uploads[u].pc = "count"
    /\ \/ LET existingCount == countDocuments(collection, firstFileId(uploads[u].docs))
          IN  Set(u, [uploads[u] EXCEPT
                         !.pc = IF hasExisting(existingCount) THEN "delete" ELSE "store"])
       \/ IngestRaise(u)
    /\ UNCHANGED <<collection, chatVars, uiVars>>

\* vectorStore.ts line 36
IngestDelete(u) ==
    /\ uploads[u].pc = "delete"
    /\ \/ /\ collection' = deleteMany(collection, firstFileId(uploads[u].docs))
          /\ Set(u, [uploads[u] EXCEPT !.pc = "store"])
       \/ /\ IngestRaise(u)
          /\ UNCHANGED collection
    /\ UNCHANGED <<chatVars, uiVars>>

\* vectorStore.ts lines 43-50: fromDocuments embeds the texts and inserts
\* the documents with insertMany, in order; a failure leaves the documents
\* inserted before it, and an empty batch is refused by the driver
IngestStore(u) ==
    /\ uploads[u].pc = "store"
    /\ LET ds == uploads[u].docs
       IN  \/ /\ Len(ds) > 0
              /\ collection' = collection \o Stored(u, uploads[u].attempt, ds)
              /\ Set(u, [uploads[u] EXCEPT !.pc = "done", !.status = 200])
           \/ /\ Len(ds) > 0
              /\ \E k \in 0..(Len(ds) - 1) :
                    collection' = collection \o Stored(u, uploads[u].attempt, Take(ds, k))
              /\ IngestRaise(u)
           \/ /\ Len(ds) = 0
              /\ UNCHANGED collection
              /\ IngestRaise(u)
    /\ UNCHANGED <<chatVars, uiVars>>

\* The upload requests alone, any number of them at once.
IngestNext ==
    \E u \in Uploaders :
        \/ UploadReceive(u)
        \/ IngestConnect(u)
        \/ IngestCount(u)
        \/ IngestDelete(u)
        \/ IngestStore(u)

IngestInit == Init /\ collection = OutlineStore

IngestSpec == IngestInit /\ [][IngestNext]_vars

\* The upload requests one after the other: a request arrives when no other
\* is in its handler.
NoUploadRunning == \A u \in Uploaders : uploads[u].pc \in {"idle", "done"}

SequentialNext ==
    \E u \in Uploaders :
        \/ NoUploadRunning /\ UploadReceive(u)
        \/ IngestConnect(u)
        \/ IngestCount(u)
        \/ IngestDelete(u)
        \/ IngestStore(u)

SequentialSpec == IngestInit /\ [][SequentialNext]_vars

\* A chat request while an upload request for the same document is in its
\* handler: the request has arrived with one chunk for f1 and is about to
\* call embedAndStoreDocs.
RaceNext ==
    \/ Next
    \/ IngestConnect(1)
    \/ IngestCount(1)
    \/ IngestDelete(1)
    \/ IngestStore(1)

ReingestF1 ==
    [IdleUpload EXCEPT
        !.pc = "connect", !.fileId = "f1", !.uploadedAt = 1,
        !.docs = docsWithMetadata(<<[s |-> "Helium ground state energy", pad |-> 0]>>,
                                  "f1", 1)]

RaceInit ==
    /\ InitUI
    /\ uploads = [u \in Uploaders |-> IF u = 1 THEN ReingestF1 ELSE IdleUpload]
    /\ collection = PhysicsStore
    /\ body = [messages |-> <<>>, pdfId |-> Undefined]
    /\ pc = "idle"
    /\ docs = <<>>
    /\ altPos = 1
    /\ client = "none"
    /\ response = NoResponse
    /\ calls = <<>>
    /\ strategy = {}

RaceSpec == RaceInit /\ [][RaceNext]_vars

(***************************************************************************)
(* The browser side: PDFChatApp (src/components/pdf-chat-app.tsx),         *)
(* PDFUpload (src/components/pdf-upload.tsx) and Chat                      *)
(* (src/unnamed/part_002).                                                 *)
(*                                                                         *)
(* A handler runs with the values of the render that created it, held in   *)
(* view.  The state updates of an event handler are rendered before the    *)
(* next event; the updates made after an await are rendered by a later     *)
(* step, Render.  A render runs the effects whose dependencies changed.    *)
(* The responses of the two endpoints are inputs of the components: a      *)
(* fetch resolves with an ok response, resolves with a response that is    *)
(* not ok, or rejects.  The button of pdf-chat-app.tsx line 172 is shown   *)
(* in no state (it needs no ready PDF and a hidden upload widget) and the  *)
(* drag handlers only change the highlighting; neither is modelled.        *)
(***************************************************************************)
MaxFiles == 2
MaxSubmits == 2

\* The texts typed into the input field.
Inputs == {"", " ", "why"}

\* How a fetch ends.
FetchOutcomes == {"ok", "notOk", "rejected"}

\* A file selection: the types of the files chosen.
FileSelections == {<<"pdf">>, <<"pdf", "pdf">>, <<"text", "pdf">>, <<"text">>}

ErrorContent == "Sorry, I encountered an error processing your request."

RECURSIVE trim(_)
trim(s) ==
    IF s = "" THEN ""
    ELSE IF IsWs(CharAt(s, 1)) THEN trim(SubSeq(s, 2, Len(s)))
    ELSE IF IsWs(CharAt(s, Len(s))) THEN trim(SubSeq(s, 1, Len(s) - 1))
    ELSE s

\* The state of the components as one record.
Current ==
    [pdfs |-> pdfs, selectedPDF |-> selectedPDF, showUpload |-> showUpload,
     files |-> files, pending |-> pending, fileCount |-> fileCount,
     messages |-> messages, input |-> input, isLoading |-> isLoading, data |-> data,
     requests |-> requests, submitted |-> submitted]

\* The state becomes s; nothing is rendered.
Update(s) ==
    /\ pdfs' = s.pdfs
    /\ selectedPDF' = s.selectedPDF
    /\ showUpload' = s.showUpload
    /\ files' = s.files
    /\ pending' = s.pending
    /\ fileCount' = s.fileCount
    /\ messages' = s.messages
    /\ input' = s.input
    /\ isLoading' = s.isLoading
    /\ data' = s.data
    /\ requests' = s.requests
    /\ submitted' = s.submitted

\* Chat lines 37-42: the effect that runs when selectedPDFId has changed
\* since the last render (the mount of Chat included)
resetEffect(s) ==
    IF s.selectedPDF # Null /\ s.selectedPDF # view.selectedPDF
    THEN [s EXCEPT !.messages = initialMessages, !.data = <<>>]
    ELSE s

\* pdf-chat-app.tsx line 70: PDFUpload is rendered while showUpload holds;
\* when it is unmounted its files are lost and the uploads it started no
\* longer reach the files of a widget
unmountUpload(s) ==
    IF s.showUpload THEN s
    ELSE [s EXCEPT !.files = <<>>,
                   !.pending = {[p EXCEPT !.mounted = FALSE] : p \in @}]

\* The state s is rendered, with the effects of the render.
Commit(s) ==
    LET t == unmountUpload(resetEffect(s))
    IN  Update(t) /\ view' = Snapshot(t)

\* pdf-upload.tsx lines 47, 75, 83: setFiles of the widget that started the
\* upload
setStatus(fs, p, status) ==
    IF p.mounted
    THEN [i \in 1..Len(fs) |-> IF fs[i].id = p.id THEN [fs[i] EXCEPT !.status = status]
                                ELSE fs[i]]
    ELSE fs

\* pdf-chat-app.tsx line 33: !selectedPDF, with the selectedPDF of the
\* render that created the callback
autoSelect(captured) == captured = Null

\* pdf-chat-app.tsx lines 23-37
handlePDFReady(s, p) ==
    LET withPdf == [s EXCEPT !.pdfs = IF p.id \in Range(@) THEN @ ELSE Append(@, p.id)]
    IN  IF autoSelect(p.captured)
        THEN [withPdf EXCEPT !.selectedPDF = p.id, !.showUpload = FALSE]
        ELSE withPdf

\* pdf-upload.tsx lines 25-58: the files are selected; each PDF is listed
\* and its upload is sent, holding the onPDFReady of this render
handleFileSelect ==
    /\ view.showUpload
    /\ \E selection \in FileSelections :
        LET count == Len(SelectSeq(selection, LAMBDA type : type = "pdf"))
            ids == (fileCount + 1)..(fileCount + count)
        IN  /\ fileCount + count <= MaxFiles
            /\ Commit([Current EXCEPT
                   !.files = @ \o [i \in 1..count |->
                                       [id |-> fileCount + i, status |-> "processing"]],
                   !.pending = @ \cup {[id |-> i, captured |-> view.selectedPDF,
                                        mounted |-> TRUE] : i \in ids},
                   !.fileCount = @ + count])
    /\ UNCHANGED <<collection, chatVars, uploads>>

\* pdf-upload.tsx lines 60-86: the response of an upload arrives
processFile ==
    /\ \E p \in pending : \E outcome \in FetchOutcomes :
        LET rest == [Current EXCEPT !.pending = @ \ {p}]
        IN  IF outcome = "ok"
            THEN Update(handlePDFReady([rest EXCEPT !.files = setStatus(@, p, "ready")], p))
            ELSE Update([rest EXCEPT !.files = setStatus(@, p, "error")])
    /\ UNCHANGED <<collection, chatVars, uploads, view>>

\* pdf-chat-app.tsx line 103: a PDF of the library is clicked
selectPDF ==
    /\ \E id \in Range(view.pdfs) : Commit([Current EXCEPT !.selectedPDF = id])
    /\ UNCHANGED <<collection, chatVars, uploads>>

\* pdf-chat-app.tsx line 88: the button beside the library
toggleUpload ==
    /\ Len(view.pdfs) > 0
    /\ Commit([Current EXCEPT !.showUpload = ~view.showUpload])
    /\ UNCHANGED <<collection, chatVars, uploads>>

\* Chat lines 135-141: the input field, disabled while loading
onChange ==
    /\ view.selectedPDF # Null
    /\ ~view.isLoading
    /\ \E text \in Inputs : Commit([Current EXCEPT !.input = text])
    /\ UNCHANGED <<collection, chatVars, uploads>>

\* Chat line 55
submitRefused(text, loading) == trim(text) = "" \/ loading

\* Chat lines 57-61
newMessage(n, text, about) ==
    [id |-> 2 * n, role |-> "user", content |-> text, about |-> about]

\* Chat lines 85-90 and 100-104: the answer, or the fixed error message
assistantMessage(r, outcome) ==
    [id |-> 2 * r.n + 1, role |-> "assistant",
     content |-> IF outcome = "ok" THEN "answer" ELSE ErrorContent,
     about |-> r.pdfId]

\* A variant of the continuation that shows nothing when the request
\* failed.
afterFetchSilentOnError(prev, r, outcome) ==
    IF outcome = "ok" THEN Append(prev, assistantMessage(r, outcome)) ELSE prev

\* Chat lines 92 and 105
afterFetch(prev, r, outcome) == Append(prev, assistantMessage(r, outcome))

\* Chat lines 53-77: the form is submitted
handleSubmit ==
    /\ view.selectedPDF # Null
    /\ ~submitRefused(view.input, view.isLoading)
    /\ submitted < MaxSubmits
    /\ Commit([Current EXCEPT
           !.messages = Append(view.messages,
                               newMessage(submitted + 1, view.input, view.selectedPDF)),
           !.input = "",
           !.isLoading = TRUE,
           !.requests = @ \cup {[n |-> submitted + 1, pdfId |-> view.selectedPDF]},
           !.submitted = @ + 1])
    /\ UNCHANGED <<collection, chatVars, uploads>>

\* Chat lines 79-108: the response of a chat request arrives
handleSubmitResume ==
    /\ \E r \in requests : \E outcome \in FetchOutcomes :
        Update([Current EXCEPT
            !.messages = afterFetch(@, r, outcome),
            !.data = IF outcome = "ok" THEN Append(@, [sources |-> r.pdfId]) ELSE @,
            !.isLoading = FALSE,
            !.requests = @ \ {r}])
    /\ UNCHANGED <<collection, chatVars, uploads, view>>

\* The updates made after an await are rendered.
Render ==
    /\ Snapshot(Current) # view
    /\ Commit(Current)
    /\ UNCHANGED <<collection, chatVars, uploads>>

PanelNext ==
    \/ handleFileSelect
    \/ processFile
    \/ selectPDF
    \/ toggleUpload
    \/ onChange
    \/ handleSubmit
    \/ handleSubmitResume
    \/ Render

PanelInit == Init /\ collection = PhysicsStore

PanelSpec == PanelInit /\ [][PanelNext]_vars

\* The promise of fetch settles, and the continuation of handleSubmit
\* runs: a pending chat request gets its response or its failure.
PanelLiveSpec == PanelSpec /\ WF_vars(handleSubmitResume)


(***************************************************************************)
(* Reading the call log.                                                   *)
(***************************************************************************)
RetrievalOps ==
    {"vector", "alt", "structure", "heading", "overview", "keyword", "specific", "sample"}

FallbackOps == RetrievalOps \ {"vector", "alt"}

StageOf(op) ==
    CASE op \in {"vector", "alt"} -> 0
      [] op \in {"structure", "heading"} -> 1
      [] op = "overview" -> 2
      [] op \in {"keyword", "specific"} -> 3
      [] op = "sample" -> 4

LastCall == calls[Len(calls)]

Sent(ops) == \E i \in 1..Len(calls) : calls[i].op \in ops

Asked == body.messages # <<>>

(***************************************************************************)
(* C1.  Cascade short-circuit: retrieval queries are sent in the order of  *)
(* the stages 0, then 1 / 2 / 3, then 4, and a query sent while the        *)
(* handler already holds chunks belongs to the stage that produced them,   *)
(* so no later stage queries the store once a stage has produced a chunk;  *)
(* when Stage 0 produced the chunks, no query of Stages 1-4 is ever sent.  *)
(***************************************************************************)
C1_CascadeShortCircuit ==
    /\ \A i \in 1..Len(calls) :
          calls[i].op \in RetrievalOps /\ calls[i].from # {}
              => calls[i].from = {StageOf(calls[i].op)}
    /\ \A i \in 1..Len(calls) : \A j \in i..Len(calls) :
          calls[i].op \in RetrievalOps /\ calls[j].op \in RetrievalOps
              => StageOf(calls[i].op) <= StageOf(calls[j].op)
    /\ strategy = {0} => ~Sent(FallbackOps)

C1_Witness ==
    /\ pc = "done" /\ response.status = 200
    /\ strategy = {0}
    /\ docs # <<>> /\ docs[1].score >= scoreThreshold
    /\ FallbackPc(question) = "structure"

(***************************************************************************)
(* C2.  Similarity floor: the chunks Stage 0 hands on (from the primary    *)
(* search or an alternative index) all score at least 0.6.                 *)
(***************************************************************************)
C2_SimilarityFloor ==
    strategy = {0} => \A i \in 1..Len(docs) : docs[i].score >= scoreThreshold

(***************************************************************************)
(* C3.  Document isolation: every chunk of the final chunk set belongs to  *)
(* the requested document.                                                 *)
(***************************************************************************)
C3_DocumentIsolation ==
    pc = "done" /\ response.status = 200
        => \A i \in 1..Len(docs) : \A c \in Range(collection) :
              c.id = docs[i].id => c.fileId = pdfId

C5_EmbeddingFailureDegrades ==
    \A i \in 1..Len(calls) :
        calls[i].op = "embed" /\ calls[i].result # "ok" => response.status # 500

(***************************************************************************)
(* C6.  A store error of a cascade stage's query is downgraded to an empty *)
(* result: the internal error is returned only when the first store call   *)
(* of the request failed.                                                  *)
(***************************************************************************)
C6_StageErrorDowngraded ==
    /\ \A i \in 1..Len(calls) :
          calls[i].op \in FallbackOps /\ calls[i].result # "ok" => response.status # 500
    /\ response.status = 500 /\ LastCall.op \notin {"embed"}
          => LastCall.op \in {"connect", "count"}

(***************************************************************************)
(* C7.  When the primary vector search fails with IndexNotFound, Stage 0   *)
(* goes on to the alternative indexes before the gate or a later stage.    *)
(***************************************************************************)
C7_RetryOnIndexNotFound ==
    Len(calls) > 0 /\ LastCall.op = "vector" /\ LastCall.result = "IndexNotFound"
        => pc \in {"findOne", "alt"}

(***************************************************************************)
(* C8.  Stage 0 is non-fatal: right after a vector search (primary or      *)
(* alternative) has failed, the handler holds no chunk, has returned no    *)
(* response, and is at the next alternative index, the gate or a later     *)
(* stage.                                                                  *)
(***************************************************************************)
C8_StageZeroNonFatal ==
    Len(calls) > 0 /\ LastCall.op \in {"vector", "alt"} /\ LastCall.result # "ok"
        => /\ docs = <<>>
           /\ response = NoResponse
           /\ pc \in {"alt", "gateSample", "structure", "overview", "keyword", "sample"}

C8_Witness ==
    /\ Len(calls) > 0 /\ LastCall.op = "alt" /\ LastCall.result = "StoreUnavailable"
    /\ LastCall.index = "embeddings_index"
    /\ calls[4].op = "vector" /\ calls[4].result = "ok"
    /\ pc = "gateSample"

(***************************************************************************)
(* C9.  No documents: when the count check finds 0 chunks for the          *)
(* requested document, the request ends at once with the fixed             *)
(* 'no documents' answer and an empty sources list, and no call goes to    *)
(* the embedding service or to any retrieval stage.                        *)
(***************************************************************************)
C9_NoDocuments ==
    \A i \in 1..Len(calls) :
        calls[i].op = "count" /\ calls[i].result = "ok" /\ calls[i].n = 0
            => /\ pc = "done"
               /\ response.status = 200 /\ response.kind = "nodocs"
               /\ response.sources = <<>>
               /\ i = Len(calls)
               /\ ~Sent(RetrievalOps \cup {"embed", "gateSample", "findOne"})

C9_Witness ==
    /\ pc = "done" /\ response.kind = "nodocs"
    /\ Asked /\ countDocuments(collection, pdfId) = 0 /\ Len(collection) > 0

(***************************************************************************)
(* C10.  Meta-questions always pass the gate: a question whose lower-cased *)
(* text contains a meta marker is never answered with the gate's           *)
(* rejection, and the gate's sample query is not even sent for it,         *)
(* whatever the document holds and whether or not an unrelated pattern     *)
(* matches the question.                                                   *)
(***************************************************************************)
C10_Markers ==
    {"pdf", "document", "file", "summary", "overview", "contents", "topics", "chapters",
     "sections", "tell me about", "what is this", "details about this"}

C10_MetaQuestionsPass ==
    response.kind = "irrelevant" \/ Sent({"gateSample"})
        => ~(Asked /\ \E m \in C10_Markers : Includes(questionLower, m))

C10_Witness ==
    /\ Asked /\ question = "pdf reader" /\ isObviouslyUnrelated(questionLower)
    /\ pc = "done" /\ response.status = 200
    /\ strategy = {4}

(***************************************************************************)
(* Reading the gate's part of the call log.                                *)
(***************************************************************************)
\* The gate's sample query was answered (so the gate went on to decide).
GateSampled == \E i \in 1..Len(calls) : calls[i].op = "gateSample" /\ calls[i].result = "ok"

\* The chunks the gate's sample query returns on the store as it is.
GateSample == find(collection, {c \in Range(collection) : c.fileId = pdfId}, GateSampleSize)

\* The gate let the question through: the request went on to the fallback
\* stages, which come after the gate only.
GateSaidRelevant == Sent(FallbackOps)

(***************************************************************************)
(* C11.  As amended: a question that holds no document-meta marker and     *)
(* matches an 'obviously unrelated' pattern, asked of a document whose     *)
(* sampled chunks share no domain term with it, is rejected by the gate    *)
(* once the gate's sample query is answered: the request ends with the     *)
(* 'irrelevant' answer and no query of Stages 1-4 is sent.                 *)
(***************************************************************************)
C11_NoMetaMarker ==
    \A m \in {"pdf", "document", "file", "summary", "overview", "contents", "topics",
              "chapters", "sections", "tell me about", "what is this",
              "details about this"} : ~Includes(questionLower, m)

C11_UnrelatedRejected ==
    /\ Asked /\ GateSampled
    /\ C11_NoMetaMarker
    /\ isObviouslyUnrelated(questionLower)
    /\ ~hasRelevantTerms(questionLower, GateSample)
    => /\ pc = "done" /\ response = Irrelevant
       /\ ~Sent(FallbackOps)

C11_Witness ==
    /\ Asked /\ question = "buy app" /\ collection = PhysicsStore /\ pdfId = "f1"
    /\ GateSampled /\ response = Irrelevant

\* C11 as stated: every question that matches an unrelated pattern and
\* shares no domain term with the sampled chunks is rejected by the gate,
\* which the handler enters when Stage 0 left no chunk.
C11_EveryUnrelatedRejected ==
    ~ /\ GateSaidRelevant
      /\ Asked
      /\ isObviouslyUnrelated(questionLower)
      /\ ~hasRelevantTerms(questionLower, GateSample)

(***************************************************************************)
(* C12.  Term overlap implies relevant: the gate's rejection is never the  *)
(* answer to a question with a word longer than 3 characters that          *)
(* contains, or is contained in, a domain term of the sampled chunks.      *)
(***************************************************************************)
C12_OverlapImpliesRelevant ==
    response.kind = "irrelevant" => ~(Asked /\ hasRelevantTerms(questionLower, GateSample))

(***************************************************************************)
(* C13.  As amended: the gate's rejection is never the answer to a         *)
(* question that has no word longer than 3 characters and matches no       *)
(* 'obviously unrelated' pattern, whatever the document holds.             *)
(***************************************************************************)
C13_NoSignalNoPatternPasses ==
    response.kind = "irrelevant"
        => ~ /\ Asked
             /\ Len(questionTerms(questionLower)) = 0
             /\ ~isObviouslyUnrelated(questionLower)

C13_Witness ==
    /\ Asked /\ question = "why so"
    /\ Len(questionTerms(questionLower)) = 0
    /\ GateSampled /\ pc = "done" /\ response.status = 200 /\ strategy = {4}

\* C13 as stated: no question without a word longer than 3 characters is
\* rejected.
C13_NoSignalPasses ==
    response.kind = "irrelevant" => ~(Asked /\ Len(questionTerms(questionLower)) = 0)

(***************************************************************************)
(* C15.  As amended: right after Stage 3's keyword query returned          *)
(* candidates, the handler holds at most 8 of them, in descending order of *)
(* the number of question keywords each text contains and, among equal     *)
(* counts, with the chunks whose length is in [500, 2000] first; the       *)
(* chunks held are the candidates that are neither shorter than 300        *)
(* characters nor front matter, or all candidates when none is such.  For  *)
(* candidates with counts [3,1,2] and lengths [600,1800,100] the result is *)
(* the count-3 chunk, then the count-1 chunk: the chunk of length 100 is   *)
(* dropped.                                                                *)
(***************************************************************************)
C15_Keywords == meaningfulKeywords(questionLower)

C15_Count(d) ==
    Cardinality({k \in 1..Len(C15_Keywords) : Includes(TextLower(d.text), C15_Keywords[k])})

C15_InBand(d) == TextLen(d.text) >= 500 /\ TextLen(d.text) <= 2000

\* The ids of the chunks of the document that hold a question keyword.
C15_Candidates ==
    {c.id : c \in {c \in Range(collection) :
                     /\ c.fileId = pdfId
                     /\ \E k \in 1..Len(C15_Keywords) :
                           Includes(TextLower(c.text), C15_Keywords[k])}}

C15_Content ==
    {c.id : c \in {c \in Range(collection) :
                     /\ c.id \in C15_Candidates
                     /\ TextLen(c.text) >= 300
                     /\ \A m \in {"Oxford Master Series", "course books",
                                   "tutorial material"} : ~Includes(c.text.s, m)}}

C15_Ordered ==
    \A i \in 1..Len(docs) : \A j \in (i + 1)..Len(docs) :
        /\ C15_Count(docs[i]) >= C15_Count(docs[j])
        /\ C15_Count(docs[i]) = C15_Count(docs[j]) /\ C15_InBand(docs[j])
              => C15_InBand(docs[i])

C15_Ids == [i \in 1..Len(docs) |-> docs[i].id]

C15_AfterKeywordQuery ==
    Len(calls) > 0 /\ LastCall.op = "keyword" /\ LastCall.result = "ok" /\ LastCall.n > 0

C16_OwnChunks == {c.id : c \in {c \in Range(collection) : c.fileId = pdfId}}

C16_NeverNothing ==
    /\ pc = "close" => docs # <<>>
    /\ pc = "done" /\ response.status = 200 /\ response.kind \notin {"nodocs", "irrelevant"}
          => docs # <<>> /\ response.kind # "unreadable"
    /\ \A i \in 1..Len(calls) :
          calls[i].op = "sample"
              => /\ calls[i].held = 0
                 /\ calls[i].result = "ok"
                       => /\ calls[i].n >= 1
                          /\ calls[i].n = Min(8, Cardinality(C16_OwnChunks))
    /\ strategy = {4}
          => /\ LastCall.op = "sample" /\ Len(docs) = LastCall.n
             /\ \A i \in 1..Len(docs) : docs[i].id \in C16_OwnChunks
             /\ \A i \in 1..Len(docs) : \A j \in 1..Len(docs) :
                   i # j => docs[i].id # docs[j].id

C16_Witness ==
    /\ pc = "done" /\ response.status = 200 /\ strategy = {4}
    /\ collection = PhysicsStore /\ Len(docs) = 3
    /\ \E i \in 1..Len(calls) :
          calls[i].op = "keyword" /\ calls[i].result = "ok" /\ calls[i].n = 0

(***************************************************************************)
(* C17.  Listing end-to-end: for 'list the chapters' on the document with  *)
(* the chunks '1. Introduction' and '2. Methods', once Stage 0 found       *)
(* nothing, Stage 1 returns both chunks in stored order and the answer is  *)
(* the bulleted list of the listing template.                              *)
(***************************************************************************)
C17_ListingEndToEnd ==
    /\ Asked /\ question = "list the chapters"
    /\ collection = OutlineStore /\ pdfId = "f1"
    /\ Sent({"structure"})
    /\ pc = "done" /\ response.status = 200
    => /\ strategy = {1}
       /\ [i \in 1..Len(docs) |-> docs[i].text.s] = <<"1. Introduction", "2. Methods">>
       /\ response.kind = "listing"

(***************************************************************************)
(* C20.  As amended: every response with status 200 carries a sources      *)
(* sequence; it is empty for the 'no documents' and the gate's answer,     *)
(* and for an answer composed from the final chunk set it has one entry    *)
(* per chunk, in the same order, holding that chunk's text.  The error     *)
(* responses (400, 500) carry no sources.                                  *)
(***************************************************************************)
C20_SourcesOnSuccess ==
    pc = "done"
        => /\ response.status \in {200, 400, 500}
           /\ response.status = 200
                 => /\ "sources" \in DOMAIN response
                    /\ response.kind \in {"nodocs", "irrelevant"} => response.sources = <<>>
                    /\ response.kind \notin {"nodocs", "irrelevant"}
                          => /\ Len(response.sources) = Len(docs)
                             /\ \A i \in 1..Len(docs) :
                                   response.sources[i].pageContent = docs[i].text
           /\ response.status # 200 => "sources" \notin DOMAIN response

C20_Witness ==
    /\ pc = "done" /\ response.status = 200 /\ collection = TieStore
    /\ strategy = {3}
    /\ Len(response.sources) = 2
    /\ response.sources[1].pageContent.s = "photon beam"
    /\ response.sources[2].pageContent.s = "photon flux"

\* C20 as stated: every response carries a sources sequence.
C20_SourcesAlways == pc = "done" => "sources" \in DOMAIN response

(***************************************************************************)
(* C14.  Gate failure semantics: a failure of the gate's sample query does *)
(* not end the request with the internal error, and a request whose gate   *)
(* sample came back empty (the chunks having been deleted by a             *)
(* re-ingestion after the count check) is not rejected by the gate.        *)
(***************************************************************************)
C14_GateNeverRaises ==
    \A i \in 1..Len(calls) :
        calls[i].op = "gateSample" /\ calls[i].result # "ok" => response.status # 500

C14_EmptySampleIsRelevant ==
    \A i \in 1..Len(calls) :
        calls[i].op = "gateSample" /\ calls[i].result = "ok" /\ calls[i].n = 0
            => response.kind # "irrelevant"

C14_GateFailureSemantics == C14_GateNeverRaises /\ C14_EmptySampleIsRelevant

(***************************************************************************)
(* Reading the store.                                                      *)
(***************************************************************************)
ChunksOf(coll, fileId) == SelectSeq(coll, LAMBDA c : c.fileId = fileId)

\* Upload request v has stored its chunks and no request for the same
\* fileId has arrived after it.
LatestIngestion(v) ==
    /\ uploads[v].pc = "done" /\ uploads[v].status = 200
    /\ \A w \in Uploaders \ {v} :
          uploads[w].fileId = uploads[v].fileId => uploads[w].uploadedAt < uploads[v].uploadedAt

(***************************************************************************)
(* C18.  Re-ingestion is idempotent: with the ingestions run one after the *)
(* other, once an ingestion of a fileId has completed and no later one for *)
(* that fileId has begun, the store holds for that fileId exactly the      *)
(* chunks of that ingestion, in order (their number is its chunk count,    *)
(* whatever an earlier ingestion stored), and the chunks of a fileId no    *)
(* request has named are those the store began with.                       *)
(***************************************************************************)
C18_ReingestIdempotent ==
    /\ \A v \in Uploaders :
          LatestIngestion(v)
              => LET held == ChunksOf(collection, uploads[v].fileId)
                     ds == uploads[v].docs
                 IN  /\ Len(held) = Len(ds)
                     /\ \A i \in 1..Len(held) :
                           /\ held[i].text = ds[i].pageContent
                           /\ held[i].chunkIndex = i - 1
                           /\ held[i].uploadedAt = uploads[v].uploadedAt
    /\ \A f \in Files :
          (\A u \in Uploaders : uploads[u].fileId # f)
              => ChunksOf(collection, f) = ChunksOf(OutlineStore, f)

C18_Witness ==
    /\ \A u \in Uploaders : uploads[u].pc = "done" /\ uploads[u].status = 200
    /\ uploads[1].fileId = "f1" /\ uploads[2].fileId = "f1"
    /\ uploads[1].uploadedAt = 1 /\ Len(uploads[1].docs) = 2
    /\ uploads[2].uploadedAt = 2 /\ Len(uploads[2].docs) = 1
    /\ countDocuments(collection, "f1") = 1
    /\ countDocuments(collection, "f2") = 1

(***************************************************************************)
(* C19.  Chunk uniqueness under any interleaving: no two chunks of the     *)
(* store share (fileId, chunkIndex), and the chunks of a fileId all come   *)
(* from one ingestion.                                                     *)
(***************************************************************************)
C19_ChunkUniqueness ==
    \A i \in 1..Len(collection) : \A j \in 1..Len(collection) :
        i # j /\ collection[i].fileId = collection[j].fileId
            => /\ collection[i].chunkIndex # collection[j].chunkIndex
               /\ collection[i].uploadedAt = collection[j].uploadedAt

(***************************************************************************)
(* C21  Queries are read-only.                                             *)
(***************************************************************************)
\* A step of the upload handler that is running.
C21_IngestionStep == uploads' # uploads

\* A step of the chat handler.
C21_ChatStep == chatVars' # chatVars

\* C21: every step of a chat request, on every path (the early returns, each
\* cascade stage, the error path), leaves the store as it was; a step that
\* changes the store is a step of the ingestion.
C21_QueriesReadOnly ==
    [][/\ C21_ChatStep => collection' = collection
       /\ collection' # collection => C21_IngestionStep]_vars

\* A request that went through the cascade and was answered while the
\* ingestion deleted or inserted chunks of the document.
C21_Witness ==
    /\ pc = "done"
    /\ Sent(FallbackOps)
    /\ response.status = 200
    /\ collection # PhysicsStore

(***************************************************************************)
(* C22  Front-matter filter of Stage 3.                                    *)
(***************************************************************************)
\* A front-matter chunk: it holds a boilerplate marker or is shorter than
\* 300 characters.
C22_FrontMatter(c) ==
    \/ TextLen(c.text) < 300
    \/ Includes(c.text.s, "Oxford Master Series")
    \/ Includes(c.text.s, "course books")
    \/ Includes(c.text.s, "tutorial material")

\* The keyword candidates: the chunks of the document that hold a keyword of
\* the question.
C22_Candidates ==
    {c \in Range(collection) :
        /\ c.fileId = pdfId
        /\ \E k \in Range(meaningfulKeywords(questionLower)) :
              Includes(TextLower(c.text), k)}

C22_Ranked == {docs[i].id : i \in 1..Len(docs)}

C22_AfterKeywordQuery ==
    Len(calls) > 0 /\ LastCall.op = "keyword" /\ LastCall.result = "ok" /\ LastCall.n > 0

\* C22: when the keyword query of Stage 3 has returned candidates and one of
\* them is not front matter, the ranked set holds candidates that are not
\* front matter and no other chunk; when every candidate is front matter,
\* the ranked set is drawn from all the candidates (all of them up to 8).
C22_FrontMatterFilter ==
    C22_AfterKeywordQuery
        => IF \E c \in C22_Candidates : ~C22_FrontMatter(c)
           THEN /\ C22_Ranked # {}
                /\ C22_Ranked \subseteq {c.id : c \in {c \in C22_Candidates : ~C22_FrontMatter(c)}}
           ELSE /\ C22_Ranked \subseteq {c.id : c \in C22_Candidates}
                /\ Cardinality(C22_Ranked) = Min(8, Cardinality(C22_Candidates))

\* Stage 3 ranked candidates of which one is front matter and one is not.
C22_Witness ==
    /\ C22_AfterKeywordQuery
    /\ \E c \in C22_Candidates : C22_FrontMatter(c)
    /\ \E c \in C22_Candidates : ~C22_FrontMatter(c)
    /\ Len(docs) > 0

\* Stage 3 ranked candidates that are all front matter.
C22_WitnessAllFrontMatter ==
    /\ C22_AfterKeywordQuery
    /\ \A c \in C22_Candidates : C22_FrontMatter(c)
    /\ Len(docs) > 0

(***************************************************************************)
(* C23  Escape hatch of Stage 3.                                           *)
(***************************************************************************)
C23_Markers == {"Oxford Master Series", "course books", "tutorial material"}

C23_TopHasMarker ==
    Len(docs) > 0 /\ \E mk \in C23_Markers : Includes(docs[1].text.s, mk)

\* The second query: a keyword of the question, a content indicator or more
\* than 500 characters, and no boilerplate marker.
C23_SecondQuery ==
    {c \in Range(collection) :
        /\ c.fileId = pdfId
        /\ \E k \in Range(meaningfulKeywords(questionLower)) :
              Includes(TextLower(c.text), k)
        /\ \/ TextLen(c.text) > 500
           \/ \E w \in {"chapter", "section", "equation", "formula", "energy",
                         "electron", "quantum"} : Includes(TextLower(c.text), w)
        /\ \A mk \in C23_Markers : ~Includes(TextLower(c.text), toLowerCase(mk))}

\* The handler has ranked the keyword candidates and has not gone on to the
\* second query.
C23_RankedWithoutSecondQuery ==
    /\ Len(calls) > 0
    /\ LastCall.op = "keyword" /\ LastCall.result = "ok" /\ LastCall.n > 0
    /\ pc # "specific"

C23_AfterSecondQuery ==
    Len(calls) > 0 /\ LastCall.op = "specific" /\ LastCall.result = "ok"

\* C23 as stated: whenever the top-ranked chunk holds any of the three
\* boilerplate markers the second query is issued; when it returns a chunk
\* the ranked set is replaced by its result, and otherwise the ranked set
\* is kept.
C23_EscapeHatch ==
    /\ C23_RankedWithoutSecondQuery => ~C23_TopHasMarker
    /\ C23_AfterSecondQuery
          => IF LastCall.n > 0
             THEN {docs[i].id : i \in 1..Len(docs)} = {c.id : c \in C23_SecondQuery}
             ELSE Len(docs) = LastCall.held /\ C23_TopHasMarker

\* The part of C23 the handler keeps: the second query is issued whenever
\* the top-ranked chunk holds 'Oxford Master Series', and its result
\* replaces the ranked set unless it is empty.
C23_EscapeHatchOxford ==
    /\ C23_RankedWithoutSecondQuery
          => ~(Len(docs) > 0 /\ Includes(docs[1].text.s, "Oxford Master Series"))
    /\ C23_AfterSecondQuery
          => IF LastCall.n > 0
             THEN {docs[i].id : i \in 1..Len(docs)} = {c.id : c \in C23_SecondQuery}
             ELSE Len(docs) = LastCall.held /\ C23_TopHasMarker

(***************************************************************************)
(* C24  The composer and the cascade classify a question alike.            *)
(***************************************************************************)
\* The request was answered from a context of 50 characters or more, with
\* one of the composer's question-type templates.
C24_Composed ==
    /\ pc = "done"
    /\ response.status = 200
    /\ response.kind \in {"listing", "explain", "overview", "generic"}

\* C24 as stated: the composer selects the listing template exactly when
\* the cascade's listing-request test holds for the question.
C24_ClassifyAlike ==
    C24_Composed => (response.kind = "listing" <=> isListingRequest(questionLower))

\* What holds of the two tests: the cascade's test implies the composer's.
C24_CascadeImpliesComposer ==
    C24_Composed /\ response.kind # "listing" => ~isListingRequest(questionLower)

(***************************************************************************)
(* C25  The gate is bypassed when Stage 0 found a chunk.                   *)
(***************************************************************************)
\* Stage 0 (the vector search or an alternative index) left an accepted
\* chunk in docs.
C25_VectorHit == strategy = {0} /\ Len(docs) > 0

\* The gate is being evaluated, or has rejected the question.
C25_GateActs == pc = "gateSample" \/ response.kind = "irrelevant"

\* C25: the gate's sample query is sent only while the handler holds no
\* chunk, and from the moment Stage 0 has yielded an accepted chunk the
\* request is never at the gate and never answered with the rejection,
\* whatever the question.
C25_GateBypassOnHit ==
    /\ [](\A i \in 1..Len(calls) : calls[i].op = "gateSample" => calls[i].held = 0)
    /\ [](C25_VectorHit => [](~C25_GateActs))

\* A question the unrelated patterns match is answered from the chunks of
\* Stage 0.
C25_Witness ==
    /\ pc = "done"
    /\ C25_VectorHit
    /\ response.status = 200 /\ response.kind # "irrelevant"
    /\ isObviouslyUnrelated(questionLower)
    /\ ~isGeneralPdfQuestion(questionLower)

(***************************************************************************)
(* C26  Stages 1-3 are mutually exclusive.                                 *)
(***************************************************************************)
C26_StageOps == {"structure", "heading", "overview", "keyword", "specific"}

\* The stages among 1, 2, 3 that have sent a query to the store.
C26_Issued ==
    {StageOf(calls[i].op) : i \in {j \in 1..Len(calls) : calls[j].op \in C26_StageOps}}

\* The stage the shape of the question picks.
C26_ShapeStage ==
    IF isListingRequest(questionLower) THEN 1
    ELSE IF isOverviewRequest(questionLower) THEN 2
    ELSE 3

\* The last query was the last one of a stage among 1, 2, 3 and the handler
\* holds no chunk.
C26_StageEndedEmpty ==
    /\ Len(calls) > 0
    /\ LastCall.op \in C26_StageOps /\ LastCall.result = "ok"
    /\ ~(LastCall.op = "structure" /\ pc = "heading")
    /\ Len(docs) = 0

\* C26: in one request at most one of Stages 1, 2, 3 sends a query to the
\* store, the one the shape of the question picks; when that stage ends
\* with no chunk the next query is the sample of Stage 4, and a request
\* that reaches Stage 4 with no query of Stages 1-3 sent is one for which
\* Stage 3 was picked and found no meaningful keyword.
C26_StagesExclusive ==
    /\ Cardinality(C26_Issued) <= 1
    /\ C26_Issued # {} => C26_Issued = {C26_ShapeStage}
    /\ C26_StageEndedEmpty => pc = "sample"
    /\ pc = "sample" /\ C26_Issued = {}
          => C26_ShapeStage = 3 /\ Len(meaningfulKeywords(questionLower)) = 0

\* A listing request whose two Stage 1 queries found nothing has drawn the
\* sample of Stage 4 and no query of Stage 2 or 3 was sent.
C26_Witness ==
    /\ Len(calls) > 0
    /\ LastCall.op = "sample" /\ LastCall.result = "ok"
    /\ C26_Issued = {1}
    /\ Sent({"heading"})

\* A question without a meaningful keyword goes from the gate to Stage 4.
C26_WitnessNoKeyword ==
    /\ Len(calls) > 0
    /\ LastCall.op = "sample" /\ LastCall.result = "ok"
    /\ C26_Issued = {}

(***************************************************************************)
(* C27  The connection is always released.                                 *)
(***************************************************************************)
\* C27 as stated: a request that opened a connection has closed it when
\* its response is returned, on every path, the error path included.
C27_ConnectionReleased == pc = "done" => client # "open"

\* What holds: the connection is closed before every response that is not
\* the internal error.
C27_ReleasedUnlessError ==
    pc = "done" /\ response.status # 500 => client # "open"

(***************************************************************************)
(* C28  One request at a time in the chat panel.                           *)
(***************************************************************************)
\* A step in which handleSubmit accepted a submit.
C28_Accepted == submitted' = submitted + 1

\* A step in which the response (or the failure) of a request arrived.
C28_Settled == submitted' = submitted /\ requests' # requests

\* The step renders a change of the selected PDF, whose effect resets the
\* list.
C28_Reset == view'.selectedPDF # view.selectedPDF

C28_Steps ==
    /\ C28_Accepted
          => /\ ~isLoading /\ requests = {}
             /\ isLoading' /\ Cardinality(requests') = 1
             /\ messages' = IF C28_Reset THEN initialMessages
                            ELSE Append(messages, [id |-> 2 * submitted', role |-> "user",
                                                   content |-> input, about |-> selectedPDF])
    /\ C28_Settled
          => /\ isLoading /\ ~isLoading'
             /\ requests' = {}
             /\ Len(messages') = Len(messages) + 1
             /\ SubSeq(messages', 1, Len(messages)) = messages
             /\ messages'[Len(messages')].role = "assistant"
             /\ messages'[Len(messages')].content \in {"answer", ErrorContent}
    /\ ~C28_Accepted /\ ~C28_Settled
          => /\ isLoading' = isLoading
             /\ messages' = IF C28_Reset THEN initialMessages ELSE messages

\* C28: while isLoading holds no second request is sent (at most one
\* request is awaited, and one is awaited exactly while isLoading holds); an
\* accepted submit appends one user message, the arrival of its response or
\* of its failure appends one assistant message (the answer or the fixed
\* error message) and no other step adds a message; and isLoading always
\* returns to false.
C28_OneRequestAtATime ==
    /\ [](Cardinality(requests) <= 1 /\ (isLoading <=> requests # {}))
    /\ [][C28_Steps]_vars
    /\ (isLoading ~> ~isLoading)

\* Two submits were accepted one after the other, one of them failed, and
\* the panel is idle again with the four messages after the greeting.
C28_Witness ==
    /\ submitted = 2
    /\ ~isLoading /\ requests = {}
    /\ Len(messages) = 5
    /\ messages[2].role = "user" /\ messages[3].role = "assistant"
    /\ messages[4].role = "user" /\ messages[5].role = "assistant"
    /\ messages[3].content = ErrorContent /\ messages[5].content = "answer"

(***************************************************************************)
(* C29  The conversation is reset when the PDF is switched.                *)
(***************************************************************************)
\* C29 as stated: the message list the panel shows for the selected PDF
\* holds no assistant answer to a question asked about another PDF, also
\* when the request was awaited while the PDF was switched.
C29_ResetOnSwitch ==
    \A i \in 1..Len(messages) :
        messages[i].role = "assistant" /\ messages[i].content = "answer"
            => messages[i].about = view.selectedPDF

\* What holds: the render of a switch leaves the initial messages.
C29_ResetAtSwitch ==
    [][view'.selectedPDF # view.selectedPDF => messages' = initialMessages]_vars

(***************************************************************************)
(* C30  Only the first ready PDF is selected automatically.                *)
(***************************************************************************)
\* A step in which the response of an upload arrived.
C30_UploadSettled ==
    /\ {p.id : p \in pending'} # {p.id : p \in pending}
    /\ {p.id : p \in pending'} \subseteq {p.id : p \in pending}

\* C30 as stated: once a PDF is selected, an upload that becomes ready
\* does not change the selection, whenever its callback was created.
C30_AutoSelectFirstOnly ==
    [][C30_UploadSettled /\ selectedPDF # Null => selectedPDF' = selectedPDF]_vars

\* What holds: an upload started while a PDF was selected leaves the
\* selection alone when it becomes ready.
C30_AutoSelectWhenNoneCaptured ==
    [][C30_UploadSettled /\ selectedPDF' # selectedPDF
          => \E p \in pending : p.captured = Null /\ selectedPDF' = p.id]_vars

====
